---- MODULE Spec2Model ----
(***************************************************************************)
(* A model of csmscrape: csm_all.py (fetch -> parse -> download -> PDF)    *)
(* and csm_epub.py (collect -> EPUB).                                      *)
(*                                                                         *)
(* Strings are sequences of tokens.  A token is a piece of text that no    *)
(* pattern of the program splits ("Chapter", one digit, "/", ".jpg", ...); *)
(* the set of tokens is prefix-free, so that comparing two strings token   *)
(* by token in TokOrder is Python's character-wise string comparison.      *)
(***************************************************************************)
EXTENDS Integers, Sequences, FiniteSets, TLC

VARIABLES
    \* ---- csm_all.parse_image_links applied to one page (SpecParse)
    ppc,            \* "input" | "parsed"
    \* ---- csm_all.main (Spec)
    pc,             \* "fetch" | "parse" | "download" | "pdf" | "done" | "aborted" | "off"
    html,           \* the page: a sequence of href attribute values
    links_info,     \* the list of dicts {vol, inner_path, url}
    fs,             \* files under OUTPUT_ROOT: relative path -> what the file holds:
                    \*   "complete"    the whole image
                    \*   "partial"     a prefix of it that an image decoder still identifies
                    \*   "unreadable"  nothing, or a prefix cut before that
    wpc,            \* per future: position of its _download_one call
    attempt,        \* per future: the loop variable of _download_one
    existed,        \* per future: what os.path.exists(local_path) returned
    clobbered,      \* per future: another open() truncated the file it is writing
    okSince,        \* per future: a fetch of its path succeeded since it opened the file
    result,         \* per future: the status line returned
    nreq,           \* per future: session.get calls issued in this run
    delays,         \* per future: the time.sleep arguments, in order
    printed,        \* futures whose result download_images has printed
    vol_i,          \* main's / csm_epub.main's loop index over the volumes
    pdfs,           \* files under PDF_OUTPUT: volume -> the pages of its PDF
    run,            \* how many times the program has been started
    \* ---- history, for the properties only
    fs0,            \* fs when the current run's download_images started
    dirty,          \* paths whose last open was followed by a failed fetch and no success since
    stale,          \* paths that were in dirty when an earlier run ended
    lastpdf,        \* what the last build_pdf_for_volume call saw and did
    \* ---- csm_epub.main (SpecEpub)
    epc,            \* "loop" | "done" | "aborted" | "off"
    image_entries,  \* the last result of collect_images_for_volume
    epubs           \* files under EPUB_OUTPUT: volume -> [spine, toc]

vars == <<ppc, pc, html, links_info, fs, wpc, attempt, existed, clobbered, okSince, result,
          nreq, delays, printed, vol_i, pdfs, run, fs0, dirty, stale, lastpdf,
          epc, image_entries, epubs>>

(***************************************************************************)
(* Tokens                                                                  *)
(***************************************************************************)
VolMarker == "Digital Colored Comics v"
VolMarkerEnc == "Digital%20Colored%20Comics%20v"
RootMarker == "Chainsaw Man (Digitally Colored)"
Slash == "/"

Digit == <<"0", "1", "2", "3", "4", "5", "6", "7", "8", "9">>

\* Every token, in ascending order of Python's str comparison.
TokOrder ==
    <<" ", "-A", "-B", ".PNG", ".jpg", ".png", ".txt", "/",
      "0", "1", "2", "3", "4", "5", "6", "7", "8", "9",
      "Chainsaw Man (Digitally Colored)", "Chapter",
      "Digital Colored Comics v", "Digital%20Colored%20Comics%20v",
      "cover", "ftp:", "host", "http:", "https:">>

Rank(t) == CHOOSE i \in 1..Len(TokOrder) : TokOrder[i] = t

IsDigit(t) == \E d \in 1..10 : Digit[d] = t

DigitVal(t) == (CHOOSE d \in 1..10 : Digit[d] = t) - 1

(***************************************************************************)
(* str operations                                                          *)
(***************************************************************************)
\* s[i:]
From(s, i) == SubSeq(s, i, Len(s))

\* s.startswith(p)
StartsWith(s, p) == Len(s) >= Len(p) /\ SubSeq(s, 1, Len(p)) = p

\* p occurs in s at position i
OccursAt(s, p, i) == i >= 1 /\ i + Len(p) - 1 <= Len(s) /\ SubSeq(s, i, i + Len(p) - 1) = p

\* p in s
Contains(s, p) == \E i \in 1..(Len(s) + 1) : OccursAt(s, p, i)

\* s.find(p): the lowest index, 0 for Python's -1
Find(s, p) ==
    IF Contains(s, p)
    THEN CHOOSE i \in 1..(Len(s) + 1) :
            OccursAt(s, p, i) /\ \A j \in 1..(i - 1) : ~OccursAt(s, p, j)
    ELSE 0

\* the index of the last "/" of s, 0 when there is none
LastSlash(s) ==
    IF \E i \in 1..Len(s) : s[i] = Slash
    THEN CHOOSE i \in 1..Len(s) : s[i] = Slash /\ \A j \in (i + 1)..Len(s) : s[j] # Slash
    ELSE 0

\* s.split("/")[-1], os.path.basename(s)
Basename(s) == From(s, LastSlash(s) + 1)

\* os.path.dirname(s)
Dirname(s) == IF LastSlash(s) = 0 THEN <<>> ELSE SubSeq(s, 1, LastSlash(s) - 1)

\* str.lower, on the one token that has upper-case letters a pattern tests
Lower(t) == IF t = ".PNG" THEN ".png" ELSE t

\* the end of the run of digits that starts at s[i] (i - 1 when s[i] is no digit)
RECURSIVE DigitsEnd(_, _)
DigitsEnd(s, i) == IF i <= Len(s) /\ IsDigit(s[i]) THEN DigitsEnd(s, i + 1) ELSE i - 1

\* int(d) for a sequence of digits
RECURSIVE ToInt(_)
ToInt(d) == IF d = <<>> THEN 0 ELSE 10 * ToInt(SubSeq(d, 1, Len(d) - 1)) + DigitVal(d[Len(d)])

\* a < b for str
RECURSIVE StrLess(_, _)
StrLess(a, b) ==
    IF b = <<>> THEN FALSE
    ELSE IF a = <<>> THEN TRUE
    ELSE IF a[1] # b[1] THEN Rank(a[1]) < Rank(b[1])
    ELSE StrLess(Tail(a), Tail(b))

\* urllib.parse.unquote
Decode(t) == IF t = VolMarkerEnc THEN VolMarker ELSE t

unquote(s) == [i \in 1..Len(s) |-> Decode(s[i])]

(***************************************************************************)
(* Configuration                                                           *)
(***************************************************************************)
FIRST_VOL == 1
LAST_VOL == 11

\* f"{i:02d}"
Fmt02(i) == <<Digit[(i \div 10) + 1], Digit[(i % 10) + 1]>>

TARGET_VOLUMES == {Fmt02(i) : i \in FIRST_VOL..LAST_VOL}

(***************************************************************************)
(* parse_image_links                                                       *)
(***************************************************************************)
ImageExts == {".jpg", ".jpeg", ".png"}

\* href="([^"]+\.(?:jpg|jpeg|png))", re.IGNORECASE
MatchesHrefPattern(h) == Len(h) >= 2 /\ Lower(h[Len(h)]) \in ImageExts

\* a match of "Digital Colored Comics v(\d{2})" at position i
VolMatchAt(s, i) ==
    /\ i + 2 <= Len(s)
    /\ s[i] = VolMarker
    /\ IsDigit(s[i + 1])
    /\ IsDigit(s[i + 2])

\* re.search: the leftmost match, 0 for None
vol_match(s) ==
    IF \E i \in 1..Len(s) : VolMatchAt(s, i)
    THEN CHOOSE i \in 1..Len(s) : VolMatchAt(s, i) /\ \A j \in 1..(i - 1) : ~VolMatchAt(s, j)
    ELSE 0

HasUrlScheme(href) ==
    \/ StartsWith(href, <<"/", "/">>)
    \/ StartsWith(href, <<"http:", "/", "/">>)
    \/ StartsWith(href, <<"https:", "/", "/">>)

full_url(href) == IF StartsWith(href, <<"/", "/">>) THEN <<"https:">> \o href ELSE href

\* the volume test with the lower end of the range forgotten
C5_mutVolInTarget(vol) == ToInt(vol) <= LAST_VOL

VolInTarget(vol) == vol \in TARGET_VOLUMES

inner_path(decoded) ==
    LET inner_idx == Find(decoded, <<RootMarker, Slash>>)
    IN  IF inner_idx = 0 THEN Basename(decoded) ELSE From(decoded, inner_idx)

\* the body of the loop over raw_hrefs: what one href appends to links_info
parse_href(href) ==
    LET decoded == unquote(href)
        m == vol_match(decoded)
        vol == SubSeq(decoded, m + 1, m + 2)
    IN  IF ~HasUrlScheme(href) THEN <<>>
        ELSE IF m = 0 THEN <<>>
        ELSE IF ~VolInTarget(vol) THEN <<>>
        ELSE <<[vol |-> vol, inner_path |-> inner_path(decoded), url |-> full_url(href)]>>

RECURSIVE parse_image_links(_)
parse_image_links(h) ==
    IF h = <<>> THEN <<>>
    ELSE (IF MatchesHrefPattern(h[1]) THEN parse_href(h[1]) ELSE <<>>)
         \o parse_image_links(Tail(h))

(***************************************************************************)
(* collect_images_for_volume and its sort key                              *)
(***************************************************************************)
\* the default of chap_num and of page_num
SENTINEL == 9999

\* a match of "Chapter\s+(\d+)" at position i
ChapMatchAt(s, i) ==
    /\ i + 2 <= Len(s)
    /\ s[i] = "Chapter"
    /\ s[i + 1] = " "
    /\ \E j \in (i + 2)..Len(s) :
          /\ IsDigit(s[j])
          /\ \A k \in (i + 1)..(j - 1) : s[k] = " "

chap_match(s) ==
    IF \E i \in 1..Len(s) : ChapMatchAt(s, i)
    THEN CHOOSE i \in 1..Len(s) : ChapMatchAt(s, i) /\ \A j \in 1..(i - 1) : ~ChapMatchAt(s, j)
    ELSE 0

\* where group 1 of a chapter match at i starts: after the white space
ChapDigitsStart(s, i) == CHOOSE j \in (i + 2)..Len(s) : s[j] # " " /\ \A k \in (i + 1)..(j - 1) : s[k] = " "

chap_num(rel_path) ==
    LET m == chap_match(rel_path)
        d == ChapDigitsStart(rel_path, m)
    IN  IF m = 0 THEN SENTINEL ELSE ToInt(SubSeq(rel_path, d, DigitsEnd(rel_path, d)))

\* a token "." followed by characters that are not "."
IsExtToken(t) == t \in {".jpg", ".png", ".PNG", ".txt"}

\* where the leftmost match of "(\d+)(?=\.[^.]+$)" starts in base, 0 for None
page_match(base) ==
    IF /\ Len(base) >= 2
       /\ IsExtToken(base[Len(base)])
       /\ IsDigit(base[Len(base) - 1])
    THEN CHOOSE i \in 1..(Len(base) - 1) :
            /\ \A k \in i..(Len(base) - 1) : IsDigit(base[k])
            /\ (i = 1 \/ ~IsDigit(base[i - 1]))
    ELSE 0

page_num(rel_path) ==
    LET base == Basename(rel_path)
        m == page_match(base)
    IN  IF m = 0 THEN SENTINEL ELSE ToInt(SubSeq(base, m, Len(base) - 1))

\* the sort key with page and chapter swapped
C6_mutSortKey(rel_path) == <<page_num(rel_path), chap_num(rel_path), rel_path>>

_sort_key_for_relpath(rel_path) == <<chap_num(rel_path), page_num(rel_path), rel_path>>

\* k1 < k2 for the tuples (int, int, str)
KeyLess(k1, k2) ==
    \/ k1[1] < k2[1]
    \/ k1[1] = k2[1] /\ k1[2] < k2[2]
    \/ k1[1] = k2[1] /\ k1[2] = k2[2] /\ StrLess(k1[3], k2[3])

\* list.sort(key=_sort_key_for_relpath) of a set of distinct paths
RECURSIVE SortEntries(_)
SortEntries(S) ==
    IF S = {} THEN <<>>
    ELSE LET m == CHOOSE x \in S : \A y \in S \ {x} :
                     KeyLess(_sort_key_for_relpath(x), _sort_key_for_relpath(y))
         IN  <<m>> \o SortEntries(S \ {m})

\* f"Digital Colored Comics v{vol}"
VolTag(vol) == <<VolMarker>> \o vol

\* the test of one file of the walk: its directory holds the tag, its name an image extension
InVolume(vol, p) ==
    /\ Contains(Dirname(p), VolTag(vol))
    /\ Len(Basename(p)) >= 1
    /\ Lower(p[Len(p)]) \in ImageExts

collect_images_for_volume(vol, files) ==
    SortEntries({p \in files : InVolume(vol, p)})

(***************************************************************************)
(* build_pdf_for_volume                                                    *)
(***************************************************************************)
\* the images list: the entries Image.open did not raise for, in order
OpenedImages(entries, bad) == SelectSeq(entries, LAMBDA p : p \notin bad)

\* PDF_OUTPUT after images[0].save(pdf_path, save_all=True, append_images=images[1:])
SavePdf(files, vol, images) ==
    IF images # <<>>
    THEN [v \in DOMAIN files \cup {vol} |-> IF v = vol THEN images ELSE files[v]]
    ELSE files

\* build_pdf_for_volume without the "if images:" test before the save
C8_mutBuildPdf(files, vol, entries, bad) ==
    IF entries = <<>> THEN files
    ELSE IF vol \in DOMAIN files THEN files
    ELSE [v \in DOMAIN files \cup {vol} |->
            IF v = vol THEN OpenedImages(entries, bad) ELSE files[v]]

\* PDF_OUTPUT after build_pdf_for_volume(vol), Image.open raising for the files in bad
build_pdf_for_volume(files, vol, entries, bad) ==
    IF entries = <<>> THEN files
    ELSE IF vol \in DOMAIN files THEN files
    ELSE SavePdf(files, vol, OpenedImages(entries, bad))

(***************************************************************************)
(* build_epub_for_volume                                                   *)
(***************************************************************************)
\* the extent of "(Chapter\s+\d+[^/]*)" from a match at i: up to the next "/" or the end
RECURSIVE LabelEnd(_, _)
LabelEnd(s, i) == IF i <= Len(s) /\ s[i] # Slash THEN LabelEnd(s, i + 1) ELSE i - 1

extract_chapter_label(rel_path) ==
    LET m == chap_match(rel_path)
    IN  IF m = 0 THEN <<"Pages">> ELSE SubSeq(rel_path, m, LabelEnd(rel_path, m))

\* the keys of the chapters dict, in insertion order
RECURSIVE ChapterLabels(_)
ChapterLabels(entries) ==
    IF entries = <<>> THEN <<>>
    ELSE LET before == ChapterLabels(SubSeq(entries, 1, Len(entries) - 1))
             l == extract_chapter_label(entries[Len(entries)])
         IN  IF \E i \in 1..Len(before) : before[i] = l THEN before ELSE Append(before, l)

\* chapters[label]
ChapterPages(entries, label) == SelectSeq(entries, LAMBDA p : extract_chapter_label(p) = label)

\* spine_items after the loop over chapters.items(): one page per image, chapter by chapter
RECURSIVE SpineOf(_, _)
SpineOf(entries, labels) ==
    IF labels = <<>> THEN <<>>
    ELSE ChapterPages(entries, labels[1]) \o SpineOf(entries, Tail(labels))

spine_items(entries) == SpineOf(entries, ChapterLabels(entries))

\* toc_links: per chapter its label and the image of its first page
toc_links(entries) ==
    LET labels == ChapterLabels(entries)
    IN  [i \in 1..Len(labels) |->
            [label |-> labels[i], first |-> ChapterPages(entries, labels[i])[1]]]

\* csm_epub.main's list of volumes
EpubVols == [i \in 1..(LAST_VOL - FIRST_VOL + 1) |-> Fmt02(FIRST_VOL + i - 1)]

(***************************************************************************)
(* _download_one, download_images                                          *)
(***************************************************************************)
retries == 3
backoff_base == 1
max_workers == 3

\* a map with no keys
EmptyMap == [x \in {} |-> x]

\* local_path, relative to OUTPUT_ROOT
local_path(item) == item.inner_path

\* the skip test asking for a file that was written whole
C1_mutShouldSkip(files, path) == path \in DOMAIN files /\ files[path] = "complete"

\* if os.path.exists(local_path): return "Skipped (exists)"
ShouldSkip(files, path) == path \in DOMAIN files

\* open(local_path, "wb"): the file is created or truncated, and is empty
OpenForWriting(files, path) ==
    [q \in DOMAIN files \cup {path} |-> IF q = path THEN "unreadable" ELSE files[q]]

\* the with blocks closed after the last chunk
CloseWritten(files, path, state) ==
    [q \in DOMAIN files \cup {path} |-> IF q = path THEN state ELSE files[q]]

\* an except clause that removes the file
C10_mutAfterFailedFetch(files, path, kept) == [q \in DOMAIN files \ {path} |-> files[q]]

\* the except clause leaves what was written where it is: kept, unless another
\* future has written the whole file meanwhile
AfterFailedFetch(files, path, kept) ==
    IF files[path] = "complete" THEN files ELSE [files EXCEPT ![path] = kept]

\* if attempt < retries
MayRetry(a) == a < retries

\* a constant delay
C2_mutSleepFor(a) == backoff_base

\* sleep_for = backoff_base * attempt
sleep_for(a) == backoff_base * a

Futures == DOMAIN wpc

PathOf(i) == local_path(links_info[i])

Running == {i \in Futures : wpc[i] \in {"get", "write"}}

\* the other futures that hold PathOf(i) open for writing
OtherWriters(i) == {j \in Futures \ {i} : wpc[j] = "write" /\ PathOf(j) = PathOf(i)}

\* A worker of the pool takes the next submitted item and runs _download_one up to
\* the test of os.path.exists.
StartDownload(i) ==
    /\ pc = "download"
    /\ wpc[i] = "queued"
    /\ \A j \in 1..(i - 1) : wpc[j] # "queued"
    /\ Cardinality(Running) < max_workers
    /\ existed' = [existed EXCEPT ![i] = PathOf(i) \in DOMAIN fs]
    /\ IF ShouldSkip(fs, PathOf(i))
       THEN /\ wpc' = [wpc EXCEPT ![i] = "returned"]
            /\ result' = [result EXCEPT ![i] = "skipped"]
            /\ attempt' = attempt
       ELSE /\ wpc' = [wpc EXCEPT ![i] = "get"]
            /\ result' = result
            /\ attempt' = [attempt EXCEPT ![i] = 1]
    /\ UNCHANGED <<ppc, pc, html, links_info, fs, clobbered, okSince, nreq, delays, printed,
                   vol_i, pdfs, run, fs0, dirty, stale, lastpdf, epc, image_entries, epubs>>

\* the except clause of attempt attempt[i]
ExceptClause(i) ==
    IF MayRetry(attempt[i])
    THEN /\ delays' = [delays EXCEPT ![i] = Append(@, sleep_for(attempt[i]))]
         /\ attempt' = [attempt EXCEPT ![i] = @ + 1]
         /\ wpc' = [wpc EXCEPT ![i] = "get"]
         /\ result' = result
    ELSE /\ delays' = delays
         /\ attempt' = attempt
         /\ wpc' = [wpc EXCEPT ![i] = "returned"]
         /\ result' = [result EXCEPT ![i] = "failed"]

\* session.get and raise_for_status pass, and the file is opened
GetOpens(i) ==
    /\ pc = "download"
    /\ wpc[i] = "get"
    /\ nreq' = [nreq EXCEPT ![i] = @ + 1]
    /\ fs' = OpenForWriting(fs, PathOf(i))
    /\ wpc' = [wpc EXCEPT ![i] = "write"]
    /\ clobbered' = [j \in Futures |->
                        IF j = i THEN FALSE
                        ELSE IF j \in OtherWriters(i) THEN TRUE
                        ELSE clobbered[j]]
    /\ okSince' = [okSince EXCEPT ![i] = FALSE]
    /\ UNCHANGED <<ppc, pc, html, links_info, attempt, existed, result, delays, printed,
                   vol_i, pdfs, run, fs0, dirty, stale, lastpdf, epc, image_entries, epubs>>

\* session.get or raise_for_status raises: nothing was opened
GetRaises(i) ==
    /\ pc = "download"
    /\ wpc[i] = "get"
    /\ nreq' = [nreq EXCEPT ![i] = @ + 1]
    /\ ExceptClause(i)
    /\ UNCHANGED <<ppc, pc, html, links_info, fs, existed, clobbered, okSince, printed,
                   vol_i, pdfs, run, fs0, dirty, stale, lastpdf, epc, image_entries, epubs>>

\* every chunk is written and the file closed.  When another open() truncated the
\* file meanwhile, or another future is still writing it, what the file then holds
\* depends on how the writes interleave: whole or not.
WriteCompletes(i) ==
    /\ pc = "download"
    /\ wpc[i] = "write"
    /\ \E state \in (IF clobbered[i] \/ OtherWriters(i) # {}
                     THEN {"unreadable", "partial", "complete"} ELSE {"complete"}) :
          fs' = CloseWritten(fs, PathOf(i), state)
    /\ wpc' = [wpc EXCEPT ![i] = "returned"]
    /\ result' = [result EXCEPT ![i] = "downloaded"]
    /\ okSince' = [j \in Futures |-> IF j \in OtherWriters(i) THEN TRUE ELSE okSince[j]]
    /\ dirty' = dirty \ {PathOf(i)}
    /\ UNCHANGED <<ppc, pc, html, links_info, attempt, existed, clobbered, nreq, delays,
                   printed, vol_i, pdfs, run, fs0, stale, lastpdf, epc, image_entries, epubs>>

\* iter_content raises after the file was opened
WriteRaises(i) ==
    /\ pc = "download"
    /\ wpc[i] = "write"
    /\ \E kept \in {"unreadable", "partial"} : fs' = AfterFailedFetch(fs, PathOf(i), kept)
    /\ ExceptClause(i)
    /\ dirty' = IF okSince[i] THEN dirty ELSE dirty \cup {PathOf(i)}
    /\ UNCHANGED <<ppc, pc, html, links_info, existed, clobbered, okSince, nreq, printed,
                   vol_i, pdfs, run, fs0, stale, lastpdf, epc, image_entries, epubs>>

\* for fut in as_completed(futures): print(fut.result())
PrintResult(i) ==
    /\ pc = "download"
    /\ wpc[i] = "returned"
    /\ i \notin printed
    /\ printed' = printed \cup {i}
    /\ UNCHANGED <<ppc, pc, html, links_info, fs, wpc, attempt, existed, clobbered, okSince,
                   result, nreq, delays, vol_i, pdfs, run, fs0, dirty, stale, lastpdf,
                   epc, image_entries, epubs>>

(***************************************************************************)
(* csm_all.main                                                            *)
(***************************************************************************)
MaxRuns == 2
MaxHrefs == 2

\* hrefs of the archive page
\*   https://host/Chainsaw Man (Digitally Colored)/Digital Colored Comics v01/Chapter 1/01.jpg
HrefPage1 ==
    <<"https:", "/", "/", "host", "/", RootMarker, "/", VolMarker, "0", "1", "/",
      "Chapter", " ", "1", "/", "0", "1", ".jpg">>
\*   the same chapter's 02.jpg, the volume marker percent-encoded
HrefPage2 ==
    <<"https:", "/", "/", "host", "/", RootMarker, "/", VolMarkerEnc, "0", "1", "/",
      "Chapter", " ", "1", "/", "0", "2", ".jpg">>
\*   //host/Digital Colored Comics v05/Chainsaw Man (Digitally Colored)/Chapter 2/03.jpg
HrefMarkerFirst ==
    <<"/", "/", "host", "/", VolMarker, "0", "5", "/", RootMarker, "/",
      "Chapter", " ", "2", "/", "0", "3", ".jpg">>
\*   http://host/Digital Colored Comics v02/01.jpg: no root marker
HrefNoRoot ==
    <<"http:", "/", "/", "host", "/", VolMarker, "0", "2", "/", "0", "1", ".jpg">>

\* what the archive may list: one href twice, as a listing that repeats an entry does
Listing == <<HrefMarkerFirst, HrefPage1, HrefPage1, HrefPage2, HrefNoRoot>>

\* the pages: up to MaxHrefs consecutive hrefs of the listing
Pages ==
    UNION {{SubSeq(Listing, a, a + n - 1) : a \in 1..(Len(Listing) - n + 1)} : n \in 0..MaxHrefs}

\* (x["vol"], x["inner_path"]) < (y["vol"], y["inner_path"])
LinkLess(x, y) ==
    \/ StrLess(x.vol, y.vol)
    \/ x.vol = y.vol /\ StrLess(x.inner_path, y.inner_path)

\* list.sort is stable: x goes after every element that is not greater
InsertLink(sorted, x) ==
    LET n == Cardinality({k \in 1..Len(sorted) : ~LinkLess(x, sorted[k])})
    IN  SubSeq(sorted, 1, n) \o <<x>> \o SubSeq(sorted, n + 1, Len(sorted))

RECURSIVE SortLinks(_)
SortLinks(l) ==
    IF l = <<>> THEN <<>>
    ELSE InsertLink(SortLinks(SubSeq(l, 1, Len(l) - 1)), l[Len(l)])

RECURSIVE SortStrs(_)
SortStrs(S) ==
    IF S = {} THEN <<>>
    ELSE LET m == CHOOSE x \in S : \A y \in S \ {x} : StrLess(x, y)
         IN  <<m>> \o SortStrs(S \ {m})

\* sorted({item["vol"] for item in links_info})
vols_present == SortStrs({links_info[i].vol : i \in 1..Len(links_info)})

NoPdfCall == [called |-> FALSE, vol |-> <<>>, existed |-> FALSE, valid |-> <<>>, before |-> EmptyMap]

Init ==
    /\ ppc = "off"
    /\ pc = "fetch"
    /\ html \in Pages
    /\ links_info = <<>>
    /\ fs = EmptyMap
    /\ wpc = <<>>
    /\ attempt = <<>>
    /\ existed = <<>>
    /\ clobbered = <<>>
    /\ okSince = <<>>
    /\ result = <<>>
    /\ nreq = <<>>
    /\ delays = <<>>
    /\ printed = {}
    /\ vol_i = 1
    /\ pdfs = EmptyMap
    /\ run = 1
    /\ fs0 = EmptyMap
    /\ dirty = {}
    /\ stale = {}
    /\ lastpdf = NoPdfCall
    /\ epc = "off"
    /\ image_entries = <<>>
    /\ epubs = EmptyMap

\* fetch_html returns the page
FetchHtml ==
    /\ pc = "fetch"
    /\ pc' = "parse"
    /\ UNCHANGED <<ppc, html, links_info, fs, wpc, attempt, existed, clobbered, okSince,
                   result, nreq, delays, printed, vol_i, pdfs, run, fs0, dirty, stale,
                   lastpdf, epc, image_entries, epubs>>

\* requests.get or raise_for_status raises in fetch_html: main ends with the exception
FetchHtmlRaises ==
    /\ pc = "fetch"
    /\ pc' = "aborted"
    /\ UNCHANGED <<ppc, html, links_info, fs, wpc, attempt, existed, clobbered, okSince,
                   result, nreq, delays, printed, vol_i, pdfs, run, fs0, dirty, stale,
                   lastpdf, epc, image_entries, epubs>>

\* links_info = parse_image_links(html); links_info.sort(...); download_images submits
\* one future per item
ParseAndSubmit ==
    /\ pc = "parse"
    /\ pc' = "download"
    /\ LET l == SortLinks(parse_image_links(html))
       IN  /\ links_info' = l
           /\ wpc' = [i \in 1..Len(l) |-> "queued"]
           /\ attempt' = [i \in 1..Len(l) |-> 0]
           /\ existed' = [i \in 1..Len(l) |-> FALSE]
           /\ clobbered' = [i \in 1..Len(l) |-> FALSE]
           /\ okSince' = [i \in 1..Len(l) |-> FALSE]
           /\ result' = [i \in 1..Len(l) |-> "none"]
           /\ nreq' = [i \in 1..Len(l) |-> 0]
           /\ delays' = [i \in 1..Len(l) |-> <<>>]
    /\ printed' = {}
    /\ fs0' = fs
    /\ UNCHANGED <<ppc, html, fs, vol_i, pdfs, run, dirty, stale, lastpdf, epc,
                   image_entries, epubs>>

\* download_images returns: every result was printed (or there was nothing to download)
DownloadsDone ==
    /\ pc = "download"
    /\ printed = Futures
    /\ pc' = "pdf"
    /\ vol_i' = 1
    /\ UNCHANGED <<ppc, html, links_info, fs, wpc, attempt, existed, clobbered, okSince,
                   result, nreq, delays, printed, pdfs, run, fs0, dirty, stale, lastpdf,
                   epc, image_entries, epubs>>

\* the files Image.open raises for
Undecodable(files) == {q \in DOMAIN files : files[q] = "unreadable"}

\* one iteration of "for vol in vols_present: build_pdf_for_volume(vol)"
BuildPdf ==
    /\ pc = "pdf"
    /\ vol_i <= Len(vols_present)
    /\ LET vol == vols_present[vol_i]
           entries == collect_images_for_volume(vol, DOMAIN fs)
       IN  /\ image_entries' = entries
           /\ pdfs' = build_pdf_for_volume(pdfs, vol, entries, Undecodable(fs))
           /\ lastpdf' = [called |-> TRUE, vol |-> vol, existed |-> vol \in DOMAIN pdfs,
                          valid |-> OpenedImages(entries, Undecodable(fs)), before |-> pdfs]
    /\ vol_i' = vol_i + 1
    /\ UNCHANGED <<ppc, pc, html, links_info, fs, wpc, attempt, existed, clobbered, okSince,
                   result, nreq, delays, printed, run, fs0, dirty, stale, epc, epubs>>

\* print("ALL DONE.")
MainDone ==
    /\ pc = "pdf"
    /\ vol_i > Len(vols_present)
    /\ pc' = "done"
    /\ UNCHANGED <<ppc, html, links_info, fs, wpc, attempt, existed, clobbered, okSince,
                   result, nreq, delays, printed, vol_i, pdfs, run, fs0, dirty, stale,
                   lastpdf, epc, image_entries, epubs>>

\* the program is started again on the same page and the same output directory
RunAgain ==
    /\ pc \in {"done", "aborted"}
    /\ run < MaxRuns
    /\ run' = run + 1
    /\ pc' = "fetch"
    /\ links_info' = <<>>
    /\ wpc' = <<>>
    /\ attempt' = <<>>
    /\ existed' = <<>>
    /\ clobbered' = <<>>
    /\ okSince' = <<>>
    /\ result' = <<>>
    /\ nreq' = <<>>
    /\ delays' = <<>>
    /\ printed' = {}
    /\ vol_i' = 1
    /\ stale' = stale \cup dirty
    /\ lastpdf' = NoPdfCall
    /\ image_entries' = <<>>
    /\ UNCHANGED <<ppc, html, fs, pdfs, fs0, dirty, epc, epubs>>

Next ==
    \/ FetchHtml
    \/ FetchHtmlRaises
    \/ ParseAndSubmit
    \/ \E i \in Futures : StartDownload(i)
    \/ \E i \in Futures : GetOpens(i)
    \/ \E i \in Futures : GetRaises(i)
    \/ \E i \in Futures : WriteCompletes(i)
    \/ \E i \in Futures : WriteRaises(i)
    \/ \E i \in Futures : PrintResult(i)
    \/ DownloadsDone
    \/ BuildPdf
    \/ MainDone
    \/ RunAgain

Spec == Init /\ [][Next]_vars

(***************************************************************************)
(* parse_image_links on one href at a time                                 *)
(***************************************************************************)
MaxPieces == 3

Schemes ==
    {<<"/", "/">>, <<"https:", "/", "/">>, <<"http:", "/", "/">>, <<"ftp:", "/", "/">>, <<"/">>}

BodyPieces ==
    {<<"host", "/">>, <<RootMarker, "/">>, <<"3">>,
     <<VolMarker, "0", "5">>, <<VolMarker, "1", "2">>, <<VolMarker, "0", "0">>,
     <<VolMarker, "7">>, <<VolMarkerEnc, "1", "1">>}

HrefEndings == {<<".jpg">>, <<".PNG">>, <<".txt">>}

RECURSIVE Bodies(_)
Bodies(n) ==
    IF n = 0 THEN {<<>>}
    ELSE Bodies(n - 1) \cup {b \o q : b \in Bodies(n - 1), q \in BodyPieces}

ParseInputs == {sch \o b \o e : sch \in Schemes, b \in Bodies(MaxPieces), e \in HrefEndings}

InitParse ==
    /\ ppc = "input"
    /\ pc = "off"
    /\ html \in {<<h>> : h \in ParseInputs}
    /\ links_info = <<>>
    /\ fs = EmptyMap
    /\ wpc = <<>>
    /\ attempt = <<>>
    /\ existed = <<>>
    /\ clobbered = <<>>
    /\ okSince = <<>>
    /\ result = <<>>
    /\ nreq = <<>>
    /\ delays = <<>>
    /\ printed = {}
    /\ vol_i = 1
    /\ pdfs = EmptyMap
    /\ run = 1
    /\ fs0 = EmptyMap
    /\ dirty = {}
    /\ stale = {}
    /\ lastpdf = NoPdfCall
    /\ epc = "off"
    /\ image_entries = <<>>
    /\ epubs = EmptyMap

\* links_info = parse_image_links(html)
ParseLinks ==
    /\ ppc = "input"
    /\ ppc' = "parsed"
    /\ links_info' = parse_image_links(html)
    /\ UNCHANGED <<pc, html, fs, wpc, attempt, existed, clobbered, okSince, result, nreq,
                   delays, printed, vol_i, pdfs, run, fs0, dirty, stale, lastpdf, epc,
                   image_entries, epubs>>

SpecParse == InitParse /\ [][ParseLinks]_vars

(***************************************************************************)
(* csm_epub.main                                                           *)
(***************************************************************************)
MaxFiles == 3

Vol01 == <<VolMarker, "0", "1", "/">>

ChapterDirs ==
    {<<>>,
     <<"Chapter", " ", "1", "-A", "/">>,
     <<"Chapter", " ", "1", "-B", "/">>,
     <<"Chapter", " ", "2", "/">>,
     <<"Chapter", " ", "1", "0", "0", "0", "0", "/">>}

FileNames == {<<"2", ".jpg">>, <<"1", "0", ".jpg">>, <<"cover", ".jpg">>}

\* the files an output directory may hold
PathPool ==
    {Vol01 \o d \o n : d \in ChapterDirs, n \in FileNames}
    \cup {<<VolMarker, "0", "2", "/", "Chapter", " ", "2", "/", "2", ".jpg">>,
          <<VolMarker, "0", "1", "/", "Chapter", " ", "2", "/", "2", ".txt">>,
          <<"cover", ".jpg">>}

RECURSIVE FileSets(_)
FileSets(n) ==
    IF n = 0 THEN {{}}
    ELSE FileSets(n - 1) \cup {S \cup {q} : S \in FileSets(n - 1), q \in PathPool}

InitEpub ==
    /\ ppc = "off"
    /\ pc = "off"
    /\ html = <<>>
    /\ links_info = <<>>
    /\ fs \in {[q \in S |-> "complete"] : S \in FileSets(MaxFiles)}
    /\ wpc = <<>>
    /\ attempt = <<>>
    /\ existed = <<>>
    /\ clobbered = <<>>
    /\ okSince = <<>>
    /\ result = <<>>
    /\ nreq = <<>>
    /\ delays = <<>>
    /\ printed = {}
    /\ vol_i = 1
    /\ pdfs = EmptyMap
    /\ run = 1
    /\ fs0 = EmptyMap
    /\ dirty = {}
    /\ stale = {}
    /\ lastpdf = NoPdfCall
    /\ epc = "loop"
    /\ image_entries = <<>>
    /\ epubs = EmptyMap

\* EPUB_OUTPUT after epub.write_epub(epub_path, book)
WriteEpub(files, vol, entries) ==
    [v \in DOMAIN files \cup {vol} |->
        IF v = vol THEN [spine |-> spine_items(entries), toc |-> toc_links(entries)]
        ELSE files[v]]

\* build_epub_for_volume(vol) with no image for the volume: it returns
EpubNoImages ==
    /\ epc = "loop"
    /\ vol_i <= Len(EpubVols)
    /\ collect_images_for_volume(EpubVols[vol_i], DOMAIN fs) = <<>>
    /\ image_entries' = <<>>
    /\ vol_i' = vol_i + 1
    /\ UNCHANGED <<ppc, pc, html, links_info, fs, wpc, attempt, existed, clobbered, okSince,
                   result, nreq, delays, printed, pdfs, run, fs0, dirty, stale, lastpdf,
                   epc, epubs>>

\* build_epub_for_volume(vol) reads every image and writes the EPUB
EpubWritten ==
    /\ epc = "loop"
    /\ vol_i <= Len(EpubVols)
    /\ LET entries == collect_images_for_volume(EpubVols[vol_i], DOMAIN fs)
       IN  /\ entries # <<>>
           /\ image_entries' = entries
           /\ epubs' = WriteEpub(epubs, EpubVols[vol_i], entries)
    /\ vol_i' = vol_i + 1
    /\ UNCHANGED <<ppc, pc, html, links_info, fs, wpc, attempt, existed, clobbered, okSince,
                   result, nreq, delays, printed, pdfs, run, fs0, dirty, stale, lastpdf,
                   epc>>

\* open(full_path, "rb") raises for an image of the volume: nothing catches it, and
\* csm_epub.main ends with the exception
EpubOpenRaises ==
    /\ epc = "loop"
    /\ vol_i <= Len(EpubVols)
    /\ LET entries == collect_images_for_volume(EpubVols[vol_i], DOMAIN fs)
       IN  /\ entries # <<>>
           /\ image_entries' = entries
    /\ epc' = "aborted"
    /\ UNCHANGED <<ppc, pc, html, links_info, fs, wpc, attempt, existed, clobbered, okSince,
                   result, nreq, delays, printed, vol_i, pdfs, run, fs0, dirty, stale,
                   lastpdf, epubs>>

\* print("All EPUBs done.")
EpubDone ==
    /\ epc = "loop"
    /\ vol_i > Len(EpubVols)
    /\ epc' = "done"
    /\ UNCHANGED <<ppc, pc, html, links_info, fs, wpc, attempt, existed, clobbered, okSince,
                   result, nreq, delays, printed, vol_i, pdfs, run, fs0, dirty, stale,
                   lastpdf, image_entries, epubs>>

NextEpub ==
    \/ EpubNoImages
    \/ EpubWritten
    \/ EpubOpenRaises
    \/ EpubDone

SpecEpub == InitEpub /\ [][NextEpub]_vars

(***************************************************************************)
(* Properties                                                              *)
(***************************************************************************)
Returned(i) == wpc[i] = "returned"

\* ------------------------------------------------------------------- C1
\* C1: a record whose target file exists when _download_one starts is reported as
\* skipped and no request is issued for it; and a run that starts with every target
\* present issues no request at all and changes no file.
C1_RerunIsIdempotent ==
    /\ \A i \in Futures :
          existed[i] => /\ nreq[i] = 0
                        /\ wpc[i] \notin {"get", "write"}
                        /\ Returned(i) => result[i] = "skipped"
    /\ (/\ pc \in {"download", "pdf", "done"}
        /\ \A i \in Futures : PathOf(i) \in DOMAIN fs0)
       => /\ \A i \in Futures : nreq[i] = 0
          /\ fs = fs0

\* a second run, after a first that fetched something, has skipped every record
C1_Witness ==
    /\ run = 2
    /\ pc = "done"
    /\ Len(links_info) = 2
    /\ PathOf(1) # PathOf(2)
    /\ \A i \in Futures : existed[i] /\ result[i] = "skipped"

\* ------------------------------------------------------------------- C2
\* C2: at most 3 fetch attempts per record; a record downloaded at attempt k has
\* slept exactly 1, ..., k-1 seconds before; a failed record made 3 attempts and
\* slept 1 then 2 seconds, with no sleep after the third failure.
C2_RetryBackoff ==
    \A i \in Futures :
        /\ nreq[i] <= 3
        /\ Len(delays[i]) <= 2
        /\ (Returned(i) /\ result[i] = "downloaded")
              => /\ nreq[i] \in 1..3
                 /\ delays[i] = [k \in 1..(nreq[i] - 1) |-> k]
        /\ (Returned(i) /\ result[i] = "failed")
              => /\ nreq[i] = 3
                 /\ delays[i] = <<1, 2>>

\* fail, fail, succeed
C2_Witness ==
    \E i \in Futures :
        /\ Returned(i)
        /\ result[i] = "downloaded"
        /\ nreq[i] = 3
        /\ delays[i] = <<1, 2>>

\* ------------------------------------------------------------------- C3
\* C3: no per-item error aborts the run: when csm_epub.main has stopped, every
\* volume that has images, other than one an image of which could not be opened,
\* has been rendered.
C3_NoItemErrorAbortsRun ==
    epc \in {"done", "aborted"} =>
        \A j \in 1..Len(EpubVols) :
            (/\ collect_images_for_volume(EpubVols[j], DOMAIN fs) # <<>>
             /\ ~(epc = "aborted" /\ j = vol_i))
            => EpubVols[j] \in DOMAIN epubs

\* ------------------------------------------------------------------- C4
\* C4: no two _download_one calls that run at the same time have the same local
\* path.
C4_WorkersOwnDisjointPaths ==
    \A i, j \in Running : i # j => PathOf(i) # PathOf(j)

\* ------------------------------------------------------------------- C5
C5_Decoded(h) == [i \in 1..Len(h) |-> IF h[i] = VolMarkerEnc THEN VolMarker ELSE h[i]]

C5_MarkerAt(d, i) ==
    i + 2 <= Len(d) /\ d[i] = VolMarker /\ IsDigit(d[i + 1]) /\ IsDigit(d[i + 2])

C5_Number(d, i) == 10 * DigitVal(d[i + 1]) + DigitVal(d[i + 2])

C5_Begins(h, q) == Len(h) >= Len(q) /\ \A k \in 1..Len(q) : h[k] = q[k]

C5_HttpScheme(h) ==
    \/ C5_Begins(h, <<"/", "/">>)
    \/ C5_Begins(h, <<"http:", "/", "/">>)
    \/ C5_Begins(h, <<"https:", "/", "/">>)

\* C5 as stated: a record for the href iff its decoded path holds a two-digit volume
\* marker with a number in 01..11 and it has an http/https scheme.
C5_IncludedIffMarkerAndScheme ==
    ppc = "parsed" =>
        LET h == html[1]
            d == C5_Decoded(h)
        IN  (links_info # <<>>) <=>
                /\ C5_HttpScheme(h)
                /\ \E i \in 1..Len(d) : C5_MarkerAt(d, i) /\ C5_Number(d, i) \in 1..11

\* C5 amended: a record for the href iff it ends in .jpg/.jpeg/.png (any case), starts
\* with //, http:// or https://, and the first volume marker followed by two digits in
\* its decoded text has a number in 01..11; the record's url is the href, with https:
\* put before a leading //.
C5_IncludedIffFirstMarker ==
    ppc = "parsed" =>
        LET h == html[1]
            d == C5_Decoded(h)
        IN  /\ Len(links_info) <= 1
            /\ (links_info # <<>>) <=>
                  /\ h[Len(h)] \in {".jpg", ".jpeg", ".png", ".JPG", ".JPEG", ".PNG"}
                  /\ C5_HttpScheme(h)
                  /\ \E i \in 1..Len(d) :
                        /\ C5_MarkerAt(d, i)
                        /\ \A j \in 1..(i - 1) : ~C5_MarkerAt(d, j)
                        /\ C5_Number(d, i) \in 1..11
            /\ links_info # <<>> =>
                  /\ links_info[1].url = (IF h[1] = "/" THEN <<"https:">> \o h ELSE h)
                  /\ links_info[1].vol \in {<<d[i + 1], d[i + 2]>> : i \in 1..(Len(d) - 2)}

\* a protocol-relative href whose marker is percent-encoded is kept, as https
C5_Witness ==
    /\ ppc = "parsed"
    /\ links_info # <<>>
    /\ C5_Begins(html[1], <<"/", "/">>)
    /\ \E i \in 1..Len(html[1]) : html[1][i] = VolMarkerEnc
    /\ links_info[1].url[1] = "https:"

\* ------------------------------------------------------------------- C6
C6_HasChapter(q) == chap_match(q) # 0

C6_HasPage(q) == page_match(Basename(q)) # 0

C6_HasBoth(q) == C6_HasChapter(q) /\ C6_HasPage(q)

C6_NumbersAscend(a, b) ==
    \/ chap_num(a) < chap_num(b)
    \/ chap_num(a) = chap_num(b) /\ page_num(a) <= page_num(b)

\* C6 as stated: the list is ascending by (chapter, page) over the entries that have
\* both numbers, every entry lacking one comes after all that have both, and the
\* entries lacking one are in path order.
C6_UnparsedLast ==
    \A i, j \in 1..Len(image_entries) :
        i < j =>
            LET a == image_entries[i]
                b == image_entries[j]
            IN  /\ (C6_HasBoth(a) /\ C6_HasBoth(b)) => C6_NumbersAscend(a, b)
                /\ ~(~C6_HasBoth(a) /\ C6_HasBoth(b))
                /\ (~C6_HasBoth(a) /\ ~C6_HasBoth(b)) => StrLess(a, b)

C6_Chapter(q) == IF C6_HasChapter(q) THEN chap_num(q) ELSE 9999

C6_Page(q) == IF C6_HasPage(q) THEN page_num(q) ELSE 9999

\* C6 amended: the list is ascending by (chapter number, or 9999 when the path has
\* none; page number, or 9999 when the name has none; relative path).  So it is
\* ascending by (chapter, page) over the entries that have both numbers, an entry with
\* no chapter number comes after every entry whose chapter number is below 9999, an
\* entry with a chapter number and no page number comes after the pages below 9999 of
\* its own chapter and before the entries of higher chapters, and only entries with the
\* same two numbers, missing ones counted as 9999, are in path order.
C6_SortedBySentinelKey ==
    \A i, j \in 1..Len(image_entries) :
        i < j =>
            LET a == image_entries[i]
                b == image_entries[j]
            IN  /\ \/ C6_Chapter(a) < C6_Chapter(b)
                   \/ C6_Chapter(a) = C6_Chapter(b) /\ C6_Page(a) < C6_Page(b)
                   \/ C6_Chapter(a) = C6_Chapter(b) /\ C6_Page(a) = C6_Page(b) /\ StrLess(a, b)
                /\ (C6_HasBoth(a) /\ C6_HasBoth(b)) => C6_NumbersAscend(a, b)
                /\ (~C6_HasChapter(a) /\ C6_HasChapter(b)) => chap_num(b) >= 9999
                /\ (C6_HasChapter(a) /\ ~C6_HasPage(a) /\ C6_HasBoth(b))
                      => \/ chap_num(a) < chap_num(b)
                         \/ chap_num(a) = chap_num(b) /\ page_num(b) >= 9999

\* numbered pages in an order that is not path order, followed by a page with no
\* chapter number
C6_Witness ==
    /\ Len(image_entries) = 3
    /\ C6_HasBoth(image_entries[1])
    /\ C6_HasBoth(image_entries[2])
    /\ StrLess(image_entries[2], image_entries[1])
    /\ ~C6_HasChapter(image_entries[3])

\* ------------------------------------------------------------------- C7
\* C7: the spine of every EPUB written holds one page per image of the volume, in the
\* order collect_images_for_volume returns them.
C7_SpineIsCollectorOrder ==
    \A v \in DOMAIN epubs : epubs[v].spine = collect_images_for_volume(v, DOMAIN fs)

\* ------------------------------------------------------------------- C8
C8_Written == lastpdf.vol \in DOMAIN pdfs /\ pdfs[lastpdf.vol] = lastpdf.valid

\* C8 as stated: in every state of the file system, build_pdf_for_volume writes no PDF
\* when no image is valid, and otherwise leaves a PDF of the valid images in collector
\* order.
C8_PdfOfValidImagesAlways ==
    lastpdf.called =>
        /\ lastpdf.valid = <<>> => pdfs = lastpdf.before
        /\ lastpdf.valid # <<>> => C8_Written

\* C8 amended: when the volume has no PDF yet, build_pdf_for_volume writes no PDF if no
\* image is valid, and otherwise one PDF of the valid images in collector order; when
\* the volume's PDF exists already it writes nothing.
C8_PdfOfValidImagesWhenAbsent ==
    lastpdf.called =>
        /\ lastpdf.valid = <<>> => pdfs = lastpdf.before
        /\ (lastpdf.valid # <<>> /\ ~lastpdf.existed)
              => /\ C8_Written
                 /\ \A v \in DOMAIN pdfs \ {lastpdf.vol} :
                        v \in DOMAIN lastpdf.before /\ pdfs[v] = lastpdf.before[v]
                 /\ \A k \in 1..Len(lastpdf.valid) :
                        \E n \in 1..Len(image_entries) : image_entries[n] = lastpdf.valid[k]
                 /\ \A k, l \in 1..Len(lastpdf.valid) :
                        k < l => KeyLess(_sort_key_for_relpath(lastpdf.valid[k]),
                                         _sort_key_for_relpath(lastpdf.valid[l]))
        /\ lastpdf.existed => pdfs = lastpdf.before

\* a first PDF of a volume, one of whose two images could not be opened
C8_Witness ==
    /\ lastpdf.called
    /\ ~lastpdf.existed
    /\ Len(image_entries) = 2
    /\ Len(lastpdf.valid) = 1
    /\ C8_Written

\* ------------------------------------------------------------------- C9
\* C9: the file of every record reported downloaded or skipped is returned by
\* collect_images_for_volume for the record's volume, and for no other volume.
C9_DownloadedIsCollected ==
    \A i \in Futures :
        (Returned(i) /\ result[i] \in {"downloaded", "skipped"}) =>
            \A v \in TARGET_VOLUMES :
                (\E n \in 1..Len(collect_images_for_volume(v, DOMAIN fs)) :
                    collect_images_for_volume(v, DOMAIN fs)[n] = PathOf(i))
                <=> v = links_info[i].vol

\* ------------------------------------------------------------------- C10
\* C10: after a fetch failed with the target open for writing and no fetch of that
\* target succeeded since the open, the record is reported failed, the file stays at
\* the target path, not whole, and every later run reports the record as skipped
\* without a request.
C10_PartialFileStays ==
    /\ \A q \in dirty : q \in DOMAIN fs /\ fs[q] \in {"partial", "unreadable"}
    /\ pc \in {"pdf", "done"} =>
          \A q \in dirty \ stale :
              \E i \in Futures : PathOf(i) = q /\ result[i] = "failed"
    /\ \A q \in stale :
          /\ q \in DOMAIN fs
          /\ fs[q] \in {"partial", "unreadable"}
          /\ \A i \in Futures :
                PathOf(i) = q => /\ nreq[i] = 0
                                 /\ Returned(i) => result[i] = "skipped"

\* a run after one that left a partial file has skipped the record
C10_Witness ==
    /\ run = 2
    /\ pc = "done"
    /\ \E i \in Futures :
          /\ PathOf(i) \in stale
          /\ result[i] = "skipped"
          /\ fs[PathOf(i)] = "partial"
          /\ lastpdf.called
          /\ PathOf(i) \in {lastpdf.valid[k] : k \in 1..Len(lastpdf.valid)}

====
